---- MODULE Spec2Model ----
(***************************************************************************)
(* Non-transitive dice game with a commit-reveal ("provably fair")         *)
(* exchange.  Two programs are modelled:                                   *)
(*   src/app.js            the multi-round game (specification Spec)       *)
(*   src/unnamed/part_000  the single-round game (specification SpecSingle)*)
(* A JavaScript string is a sequence of one-character strings.  A          *)
(* JavaScript number is a record [t, v]: t = "int" (v its value), "frac"   *)
(* (a finite non-integer, v its integer part), "nan", or "undef" for the   *)
(* value undefined.  A Dice object is referred to by its position in       *)
(* diceOptions (object identity); 0 is the reference undefined.            *)
(* Every action is one run-to-completion step of the event loop: from the  *)
(* resumption of an await up to the next suspension.                       *)
(***************************************************************************)
EXTENDS Integers, Sequences, FiniteSets, TLC

VARIABLES
  script,        \* process.argv[1]: the program node was started with
  pc,            \* position of the suspended async flow
  args,          \* process.argv.slice(2)
  diceOptions,   \* this.diceOptions
  scores,        \* this.scores
  rl,            \* this.rl: "none", "open" or "closed"
  console,       \* terminal transcript since the last published HMAC
  awaited,       \* value the awaited promise resolved with
  rounds, i,     \* locals of playGame
  firstPlayer, userDice, computerDice,
  key, value, hmac,          \* locals of the running exchange method
  userGuess, choice, userNumber,
  finalIndex, userRoll, computerRoll,
  probe          \* argument and result of a direct call of Dice.roll

vars == << script, pc, args, diceOptions, scores, rl, console, awaited, rounds, i,
           firstPlayer, userDice, computerDice, key, value, hmac,
           userGuess, choice, userNumber, finalIndex, userRoll,
           computerRoll, probe >>

----------------------------------------------------------------------------
(* Bounds *)

MaxRounds == 2      \* largest round count entered
MaxPrompts == 2     \* a question is asked at most this many times in a row
NumKeys == 2        \* distinct keys crypto.randomBytes can return
MaxIndex == 25      \* direct calls of roll use indexes -MaxIndex..MaxIndex
MaxPeriods == 2      \* periodicity of roll is compared over -MaxPeriods..MaxPeriods periods

----------------------------------------------------------------------------
(* JavaScript values *)

JsInt(n) == [t |-> "int", v |-> n]
JsFrac(n) == [t |-> "frac", v |-> n]
NaN == [t |-> "nan", v |-> 0]
Undefined == [t |-> "undef", v |-> 0]

isNaN(x) == x.t \in {"nan", "undef"}

NumberIsInteger(x) == x.t = "int"

\* x < y and x > y: false as soon as one side is NaN or undefined.  The
\* program compares integers only (a non-integer face is rejected before
\* its comparison is evaluated), so no order on "frac" values is modelled.
JsLT(x, y) == x.t = "int" /\ y.t = "int" /\ x.v < y.v

JsGT(x, y) == JsLT(y, x)

\* x === y on numbers
StrictEq(x, y) == x.t = "int" /\ y.t = "int" /\ x.v = y.v

\* a % b of JavaScript: the remainder takes the sign of the dividend
JsRem(a, b) == IF a >= 0 THEN a % b ELSE -((-a) % b)

----------------------------------------------------------------------------
(* Strings *)

Digits == <<"0", "1", "2", "3", "4", "5", "6", "7", "8", "9">>

IsDigit(c) == \E d \in 1..10 : Digits[d] = c

DigitVal(c) == (CHOOSE d \in 1..10 : Digits[d] = c) - 1

IsSpace(c) == c = " "

RECURSIVE TrimLeft(_)
TrimLeft(s) == IF s # <<>> /\ IsSpace(s[1]) THEN TrimLeft(Tail(s)) ELSE s

RECURSIVE TrimRight(_)
TrimRight(s) == IF s # <<>> /\ IsSpace(s[Len(s)])
                THEN TrimRight(SubSeq(s, 1, Len(s) - 1)) ELSE s

RECURSIVE LeadingDigits(_)
LeadingDigits(s) == IF s # <<>> /\ IsDigit(s[1])
                    THEN <<s[1]>> \o LeadingDigits(Tail(s)) ELSE <<>>

RECURSIVE DigitsValue(_)
DigitsValue(s) == IF s = <<>> THEN 0
                  ELSE 10 * DigitsValue(SubSeq(s, 1, Len(s) - 1)) + DigitVal(s[Len(s)])

\* n.toString() for a non-negative integer
RECURSIVE NatToString(_)
NatToString(n) == IF n < 10 THEN <<Digits[n + 1]>>
                  ELSE NatToString(n \div 10) \o <<Digits[(n % 10) + 1]>>

\* value.toString() for an integer
toString(n) == IF n < 0 THEN <<"-">> \o NatToString(-n) ELSE NatToString(n)

\* parseInt(s): leading white space, an optional sign, then the longest run
\* of decimal digits; NaN when there is no digit
parseInt(s) ==
  LET t == TrimLeft(s)
      signed == t # <<>> /\ t[1] \in {"-", "+"}
      u == IF signed THEN Tail(t) ELSE t
      d == LeadingDigits(u)
  IN IF d = <<>> THEN NaN
     ELSE IF signed /\ t[1] = "-" THEN JsInt(-DigitsValue(d))
     ELSE JsInt(DigitsValue(d))

\* Number(s): white space trimmed at both ends; the empty string is 0; an
\* optional sign, digits, an optional "." and digits, and nothing else
Number(s) ==
  LET t == TrimRight(TrimLeft(s))
      signed == t # <<>> /\ t[1] \in {"-", "+"}
      u == IF signed THEN Tail(t) ELSE t
      ip == LeadingDigits(u)
      r == SubSeq(u, Len(ip) + 1, Len(u))
      dotted == r # <<>> /\ r[1] = "."
      fp == IF dotted THEN LeadingDigits(Tail(r)) ELSE <<>>
      rest == IF dotted THEN SubSeq(r, Len(fp) + 2, Len(r)) ELSE r
      sgn == IF signed /\ t[1] = "-" THEN -1 ELSE 1
  IN IF t = <<>> THEN JsInt(0)
     ELSE IF rest # <<>> \/ (ip = <<>> /\ fp = <<>>) THEN NaN
     ELSE IF DigitsValue(fp) = 0 THEN JsInt(sgn * DigitsValue(ip))
     ELSE JsFrac(sgn * DigitsValue(ip))

\* s.split(','): the empty string gives one empty piece
RECURSIVE split(_)
split(s) ==
  LET Upto[n \in 0..Len(s)] ==
        IF n = Len(s) \/ s[n + 1] = "," THEN n ELSE Upto[n + 1]
      cut == Upto[0]
  IN IF cut = Len(s) THEN <<s>>
     ELSE <<SubSeq(s, 1, cut)>> \o split(SubSeq(s, cut + 2, Len(s)))

\* arg.split(',').map(Number)
ParseSides(arg) == LET p == split(arg) IN [j \in 1..Len(p) |-> Number(p[j])]

----------------------------------------------------------------------------
(* Inputs *)

\* well-formed dice configurations: "1,2,3,4,5,6" and "2,2,4,4, 9,9.0"
DieD == <<"1", ",", "2", ",", "3", ",", "4", ",", "5", ",", "6">>

DieA == <<"2", ",", "2", ",", "4", ",", "4", ",", " ", "9", ",", "9", ".", "0">>

\* malformed dice configurations
BadArgPool ==
  { <<"1", ",", "2", ",", "3">>,
    <<"1", ",", "2", ",", "3", ",", "4", ",", "5", ",", "6", ",", "7">>,
    <<"1", ",", "2", ",", "x", ",", "4", ",", "5", ",", "6">>,
    <<"0", ",", "1", ",", "2", ",", "3", ",", "4", ",", "5">>,
    <<"1", ",", "2", ",", "3", ",", "4", ",", "5", ",", "-", "6">>,
    <<"1", ",", "2", ",", "3", ",", "4", ",", "5", ",", "1", ".", "5">>,
    <<"1", ",", "2", ",", "3", ",", "4", ",", "5", ",">> }

ArgPool == {DieD, DieA} \cup BadArgPool

\* command lines the game may be started with: too few configurations, a
\* malformed one in any position, three dice of which two have the same
\* faces, four dice
CommandLines ==
  { <<>>, <<DieD>>, <<DieD, DieA>>, <<DieD, DieA, DieD>>, <<DieA, DieD, DieD, DieA>> }
  \cup { <<DieD, bad>> : bad \in BadArgPool }
  \cup { <<bad, DieD, DieA>> : bad \in BadArgPool }
  \cup { <<DieD, bad, DieA>> : bad \in BadArgPool }
  \cup { <<DieD, DieA, bad>> : bad \in BadArgPool }

\* lines the user may type at a prompt
InputPool ==
  { <<"0">>, <<"1">>, <<"2">>, <<"3">>, <<"4">>, <<"5">>, <<"6">>,
    <<"-", "1">>, <<"a">>, <<>>, <<" ", "2">>, <<"1", ".", "5">>,
    <<"2", "a">>, <<"0", "3">> }

\* crypto.randomBytes(32).toString('hex'): one of NumKeys keys
Keys == 1..NumKeys

\* crypto.randomInt(range)
randomInt(range) == 0..(range - 1)

\* parseInt(answer) for each line the user may type
parsedInput == [s \in InputPool |-> parseInt(s)]

----------------------------------------------------------------------------
(* FairRandom *)

generateHMAC(k, v) == <<"sha3-256", k, toString(v)>>

\* variant: the HMAC is computed over another value than the one returned
getFairRandom_otherValue(range, k, randomValue) ==
  [value |-> randomValue, hmac |-> generateHMAC(k, (randomValue + 1) % range)]

getFairRandom(range, k, randomValue) ==
  [value |-> randomValue, hmac |-> generateHMAC(k, randomValue)]

----------------------------------------------------------------------------
(* Dice *)

DiceError == "Each dice must have exactly 6 integer sides greater than 0."

ArgsError == "At least 3 dice configurations must be provided."

\* variant: the test x < 1 is written x < 0
Dice_zeroAllowed(sides) ==
  IF Len(sides) # 6
     \/ \E j \in 1..Len(sides) :
          ~NumberIsInteger(sides[j]) \/ JsLT(sides[j], JsInt(0))
  THEN [thrown |-> TRUE, message |-> DiceError, sides |-> <<>>]
  ELSE [thrown |-> FALSE, message |-> "", sides |-> sides]

\* variant: the length test is missing
Dice_anyLength(sides) ==
  IF \E j \in 1..Len(sides) :
       ~NumberIsInteger(sides[j]) \/ JsLT(sides[j], JsInt(1))
  THEN [thrown |-> TRUE, message |-> DiceError, sides |-> <<>>]
  ELSE [thrown |-> FALSE, message |-> "", sides |-> sides]

\* new Dice(sides), sides an array: the object, or the error thrown
Dice(sides) ==
  IF Len(sides) # 6
     \/ \E j \in 1..Len(sides) :
          ~NumberIsInteger(sides[j]) \/ JsLT(sides[j], JsInt(1))
  THEN [thrown |-> TRUE, message |-> DiceError, sides |-> <<>>]
  ELSE [thrown |-> FALSE, message |-> "", sides |-> sides]

\* new Dice(arg.split(',').map(Number)) for each configuration of the
\* catalogue
builtDice == [arg \in ArgPool |-> Dice(ParseSides(arg))]

\* variant: the index is off by one
roll_offByOne(sides, index) ==
  LET k == JsRem(index + 1, Len(sides))
  IN IF k \in 0..(Len(sides) - 1) THEN sides[k + 1] ELSE Undefined

\* dice.roll(index): this.sides[index % this.sides.length]; reading an
\* array at an index that is not one of 0..length-1 gives undefined
roll(sides, index) ==
  LET k == JsRem(index, Len(sides))
  IN IF k \in 0..(Len(sides) - 1) THEN sides[k + 1] ELSE Undefined

----------------------------------------------------------------------------
(* Terminal transcript *)

Unset == -1          \* a numeric local that is not assigned
NoHmac == <<>>
NoScores == <<>>     \* this.scores before the constructor assigns it
NoValue == <<>>      \* no promise has resolved

HmacLine(h) == <<"hmac", h>>
Question(q) == <<"question", q>>
Answer == <<"answer">>
\* variant: the value is printed without the key
RevealLine_noKey(v, k) == <<"log", v>>

RevealLine(v, k) == <<"reveal", v, k>>
ResultLine(u, v, f) == <<"result", u, v, f>>
ThrowLine(u, c) == <<"throw", u, c>>
Line(text) == <<"log", text>>

\* the transcript from its last published HMAC on
RECURSIVE SinceHmac(_)
SinceHmac(con) ==
  IF \E j \in 2..Len(con) : con[j][1] = "hmac" THEN SinceHmac(Tail(con))
  ELSE con

\* how many times the current question has been asked
RECURSIVE PromptsAsked(_)
PromptsAsked(con) ==
  IF con = <<>> \/ con[Len(con)][1] \notin {"question", "answer"} THEN 0
  ELSE (IF con[Len(con)][1] = "question" THEN 1 ELSE 0)
       + PromptsAsked(SubSeq(con, 1, Len(con) - 1))

OptionLines == [j \in 1..Len(diceOptions) |-> <<"option", j - 1, diceOptions[j].sides>>]

----------------------------------------------------------------------------
(* src/app.js: DiceGame *)

\* the process started with the arguments argv: nothing is constructed yet
Started(argv) ==
  /\ pc = "boot"
  /\ args = argv
  /\ diceOptions = <<>>
  /\ scores = NoScores
  /\ rl = "none"
  /\ console = <<>>
  /\ awaited = NoValue
  /\ rounds = Undefined
  /\ i = Unset
  /\ firstPlayer = "none"
  /\ userDice = 0
  /\ computerDice = 0
  /\ key = Unset
  /\ value = Unset
  /\ hmac = NoHmac
  /\ userGuess = Undefined
  /\ choice = Undefined
  /\ userNumber = Undefined
  /\ finalIndex = Unset
  /\ userRoll = Undefined
  /\ computerRoll = Undefined
  /\ probe = <<>>

Init == script = "app.js" /\ \E argv \in CommandLines : Started(argv)

\* variant: the first Dice, whether or not it is the chosen one
find_first(chosen) == IF diceOptions # <<>> THEN 1 ELSE 0

\* variant: the last Dice that is not the chosen one
find_last(chosen) ==
  IF \E j \in 1..Len(diceOptions) : j # chosen
  THEN CHOOSE j \in 1..Len(diceOptions) :
         j # chosen /\ \A m \in (j + 1)..Len(diceOptions) : m = chosen
  ELSE 0

\* this.diceOptions.find(d => d !== chosen): the first Dice that is not the
\* chosen object, undefined (0) when there is none
find(chosen) ==
  IF \E j \in 1..Len(diceOptions) : j # chosen
  THEN CHOOSE j \in 1..Len(diceOptions) :
         j # chosen /\ \A m \in 1..(j - 1) : m = chosen
  ELSE 0

\* variant: the selection is printed together with the HMAC
determineFirstMove_call_revealFirst(con) ==
  \E k \in Keys, r \in randomInt(2) :
    LET fr == getFairRandom(2, k, r)
    IN /\ key' = k
       /\ value' = fr.value
       /\ hmac' = fr.hmac
       /\ console' = SinceHmac(con \o <<HmacLine(fr.hmac), RevealLine(fr.value, k),
                                        Question("guess")>>)
       /\ pc' = "askGuess"

\* determineFirstMove up to its await: key, value, HMAC, the HMAC printed,
\* the question asked
determineFirstMove_call(con) ==
  \E k \in Keys, r \in randomInt(2) :
    LET fr == getFairRandom(2, k, r)
    IN /\ key' = k
       /\ value' = fr.value
       /\ hmac' = fr.hmac
       /\ console' = SinceHmac(con \o <<HmacLine(fr.hmac), Question("guess")>>)
       /\ pc' = "askGuess"

\* playRound up to its first await
playRound_call(con) ==
  \E k \in Keys, r \in randomInt(6) :
    LET fr == getFairRandom(6, k, r)
    IN /\ key' = k
       /\ value' = fr.value
       /\ hmac' = fr.hmac
       /\ console' = SinceHmac(con \o <<HmacLine(fr.hmac), Question("number")>>)
       /\ pc' = "askNumber"

\* variant: the comparison of the final scores is >= instead of >
announce_tieToUser(sc) ==
  IF sc.user >= sc.computer THEN Line("Congratulations, you win!")
  ELSE Line("I win the game!")

\* variant: the comparison of the final scores is reversed
announce_swapped(sc) ==
  IF sc.user < sc.computer THEN Line("Congratulations, you win!")
  ELSE Line("I win the game!")

\* the winner line of playGame
announce(sc) ==
  IF sc.user > sc.computer THEN Line("Congratulations, you win!")
  ELSE Line("I win the game!")

\* variant: the first mover and the dice are determined in the first round
\* only, later rounds start with the commitment of playRound
playGame_loop_selectOnce(iv, rv, con) ==
  /\ i' = iv
  /\ IF JsLT(JsInt(iv), rv)
     THEN /\ IF iv = 0
             THEN determineFirstMove_call(con \o << <<"round", iv + 1>> >>)
             ELSE playRound_call(con \o << <<"round", iv + 1>> >>)
          /\ UNCHANGED rl
     ELSE /\ console' = con \o << <<"final", scores.user, scores.computer>>,
                                  announce(scores) >>
          /\ rl' = "closed"
          /\ pc' = "closed"
          /\ key' = Unset /\ value' = Unset /\ hmac' = NoHmac

\* variant: the loop test is i <= rounds
playGame_loop_offByOne(iv, rv, con) ==
  /\ i' = iv
  /\ IF rv.t = "int" /\ iv <= rv.v
     THEN /\ determineFirstMove_call(con \o << <<"round", iv + 1>> >>)
          /\ UNCHANGED rl
     ELSE /\ console' = con \o << <<"final", scores.user, scores.computer>>,
                                  announce(scores) >>
          /\ rl' = "closed"
          /\ pc' = "closed"
          /\ key' = Unset /\ value' = Unset /\ hmac' = NoHmac

\* the for loop of playGame entered with i = iv: the next round starts, or
\* the scores and the winner are printed and the interface is closed
playGame_loop(iv, rv, con) ==
  /\ i' = iv
  /\ IF JsLT(JsInt(iv), rv)
     THEN /\ determineFirstMove_call(con \o << <<"round", iv + 1>> >>)
          /\ UNCHANGED rl
     ELSE /\ console' = con \o << <<"final", scores.user, scores.computer>>,
                                  announce(scores) >>
          /\ rl' = "closed"
          /\ pc' = "closed"
          /\ key' = Unset /\ value' = Unset /\ hmac' = NoHmac

\* the catch of the top-level try
Fail(message) ==
  /\ console' = << <<"error", message>> >>
  /\ pc' = "error"
  /\ UNCHANGED <<diceOptions, scores, rl>>

\* top level: new DiceGame(argv) and playGame() up to the first question
Main ==
  /\ pc = "boot"
  /\ LET built == [j \in 1..Len(args) |-> builtDice[args[j]]]
     IN IF Len(args) < 3 THEN Fail(ArgsError)
        ELSE IF \E j \in 1..Len(args) : built[j].thrown THEN Fail(DiceError)
        ELSE /\ diceOptions' = [j \in 1..Len(args) |-> [sides |-> built[j].sides]]
             /\ rl' = "open"
             /\ scores' = [user |-> 0, computer |-> 0]
             /\ console' = <<Line("Starting Non-Transitive Dice Game..."),
                             Question("rounds")>>
             /\ pc' = "askRounds"
  /\ UNCHANGED <<script, args, awaited, rounds, i, firstPlayer, userDice, computerDice,
                 key, value, hmac, userGuess, choice, userNumber, finalIndex,
                 userRoll, computerRoll, probe>>

\* playGame resumed with the answer to "Enter the number of rounds: "
playGame_rounds(s) ==
  /\ pc = "askRounds"
  /\ LET r == parsedInput[s]
     IN /\ r.t = "int" => r.v <= MaxRounds
        /\ rounds' = r
        /\ playGame_loop(0, r, console \o <<Answer>>)
  /\ UNCHANGED <<script, args, diceOptions, scores, awaited, firstPlayer, userDice,
                 computerDice, userGuess, choice, userNumber, finalIndex,
                 userRoll, computerRoll, probe>>

\* userGuess === value ? 'user' : 'computer'
firstMove(guess, v) == IF StrictEq(guess, JsInt(v)) THEN "user" ELSE "computer"

\* variant: the two contributions are multiplied
combination_product(c, v, range) == JsRem(c * v, range)

\* (userNumber + value) % 6 of playRound, for the range of the exchange
combination(c, v, range) == JsRem(c + v, range)

\* variant: the value printed is chosen after the guess is read, so that
\* the guess is never right
determineFirstMove_answer_adaptive(s) ==
  /\ pc = "askGuess"
  /\ userGuess' = parsedInput[s]
  /\ LET shown == IF StrictEq(userGuess', JsInt(value)) THEN 1 - value ELSE value
     IN /\ console' = console \o <<Answer, RevealLine(shown, key)>>
        /\ awaited' = <<firstMove(userGuess', shown)>>
  /\ pc' = "retFirstMove"
  /\ UNCHANGED <<script, args, diceOptions, scores, rl, rounds, i, firstPlayer,
                 userDice, computerDice, key, value, hmac, choice, userNumber,
                 finalIndex, userRoll, computerRoll, probe>>

\* determineFirstMove resumed with the answer to its question
determineFirstMove_answer(s) ==
  /\ pc = "askGuess"
  /\ userGuess' = parsedInput[s]
  /\ console' = console \o <<Answer, RevealLine(value, key)>>
  /\ awaited' = <<firstMove(userGuess', value)>>
  /\ pc' = "retFirstMove"
  /\ UNCHANGED <<script, args, diceOptions, scores, rl, rounds, i, firstPlayer,
                 userDice, computerDice, key, value, hmac, choice, userNumber,
                 finalIndex, userRoll, computerRoll, probe>>

\* playGame resumed after determineFirstMove: chooseDice up to its question
playGame_afterFirstMove ==
  /\ pc = "retFirstMove"
  /\ firstPlayer' = awaited[1]
  /\ userDice' = 0
  /\ computerDice' = 0
  /\ console' = console \o <<Line("Choose your dice:")>> \o OptionLines
                        \o <<Question("selection")>>
  /\ pc' = "askChoice"
  /\ awaited' = NoValue
  /\ key' = Unset /\ value' = Unset /\ hmac' = NoHmac /\ userGuess' = Undefined
  /\ UNCHANGED <<script, args, diceOptions, scores, rl, rounds, i, choice, userNumber,
                 finalIndex, userRoll, computerRoll, probe>>

\* chooseDice resumed with the answer to "Your selection: "
chooseDice_answer(s) ==
  /\ pc = "askChoice"
  /\ LET c == parsedInput[s]
         player == IF firstPlayer = "user" THEN "You" ELSE "Computer"
     IN /\ choice' = c
        /\ IF isNaN(c) \/ JsLT(c, JsInt(0)) \/ ~JsLT(c, JsInt(Len(diceOptions)))
           THEN /\ PromptsAsked(console) < MaxPrompts
                /\ console' = console \o <<Answer, Question("selection")>>
                /\ UNCHANGED <<pc, awaited>>
           ELSE /\ console' = console \o <<Answer, <<"chose", player, diceOptions[c.v + 1].sides>> >>
                /\ awaited' = <<c.v + 1>>
                /\ pc' = "retChoose"
  /\ UNCHANGED <<script, args, diceOptions, scores, rl, rounds, i, firstPlayer,
                 userDice, computerDice, key, value, hmac, userGuess,
                 userNumber, finalIndex, userRoll, computerRoll, probe>>

\* playGame resumed after chooseDice: the other die, playRound up to its question
playGame_afterChooseDice ==
  /\ pc = "retChoose"
  /\ IF firstPlayer = "user"
     THEN /\ userDice' = awaited[1]
          /\ computerDice' = find(awaited[1])
     ELSE /\ computerDice' = awaited[1]
          /\ userDice' = find(awaited[1])
  /\ choice' = Undefined
  /\ awaited' = NoValue
  /\ playRound_call(console)
  /\ UNCHANGED <<script, args, diceOptions, scores, rl, rounds, i, firstPlayer,
                 userGuess, userNumber, finalIndex, userRoll, computerRoll,
                 probe>>

\* variant: a tie is scored for the computer
roundScores_tieToComputer(sc, ur, cr) ==
  IF JsGT(ur, cr) THEN [sc EXCEPT !.user = @ + 1]
  ELSE [sc EXCEPT !.computer = @ + 1]

\* the scoring at the end of playRound
\* variant: a tie gives a point to both sides
roundScores_bothOnTie(sc, ur, cr) ==
  IF JsGT(ur, cr) THEN [sc EXCEPT !.user = @ + 1]
  ELSE IF JsLT(ur, cr) THEN [sc EXCEPT !.computer = @ + 1]
  ELSE [user |-> sc.user + 1, computer |-> sc.computer + 1]

roundScores(sc, ur, cr) ==
  IF JsGT(ur, cr) THEN [sc EXCEPT !.user = @ + 1]
  ELSE IF JsLT(ur, cr) THEN [sc EXCEPT !.computer = @ + 1]
  ELSE sc

\* playRound resumed with the answer to "Add your number modulo 6 (0-5): "
playRound_answer(s) ==
  /\ pc = "askNumber"
  /\ LET n == parsedInput[s]
     IN /\ userNumber' = n
        /\ IF isNaN(n) \/ JsLT(n, JsInt(0)) \/ JsGT(n, JsInt(5))
           THEN /\ PromptsAsked(console) < MaxPrompts
                /\ console' = console \o <<Answer, Question("number")>>
                /\ UNCHANGED <<pc, awaited, scores, finalIndex, userRoll, computerRoll>>
           ELSE LET f == combination(n.v, value, 6)
                    ur == roll(diceOptions[userDice].sides, f)
                    cr == roll(diceOptions[computerDice].sides, f)
                IN /\ finalIndex' = f
                   /\ userRoll' = ur
                   /\ computerRoll' = cr
                   /\ scores' = roundScores(scores, ur, cr)
                   /\ console' = console \o
                        <<Answer, RevealLine(value, key), ResultLine(n.v, value, f),
                          ThrowLine(ur, cr),
                          IF JsGT(ur, cr) THEN Line("You win this round!")
                          ELSE IF JsLT(ur, cr) THEN Line("I win this round!")
                          ELSE Line("It's a tie!")>>
                   /\ awaited' = <<Undefined>>
                   /\ pc' = "retRound"
  /\ UNCHANGED <<script, args, diceOptions, rl, rounds, i, firstPlayer, userDice,
                 computerDice, key, value, hmac, userGuess, choice, probe>>

\* playGame resumed after playRound: i++ and the loop test
playGame_afterRound ==
  /\ pc = "retRound"
  /\ awaited' = NoValue
  /\ firstPlayer' = "none" /\ userDice' = 0 /\ computerDice' = 0
  /\ userNumber' = Undefined /\ finalIndex' = Unset
  /\ userRoll' = Undefined /\ computerRoll' = Undefined
  /\ playGame_loop(i + 1, rounds, console)
  /\ UNCHANGED <<script, args, diceOptions, scores, rounds, userGuess, choice, probe>>

Next ==
  \/ Main
  \/ \E s \in InputPool : playGame_rounds(s)
  \/ \E s \in InputPool : determineFirstMove_answer(s)
  \/ playGame_afterFirstMove
  \/ \E s \in InputPool : chooseDice_answer(s)
  \/ playGame_afterChooseDice
  \/ \E s \in InputPool : playRound_answer(s)
  \/ playGame_afterRound

Spec == Init /\ [][Next]_vars

----------------------------------------------------------------------------
(* src/unnamed/part_000: the single-round game.  Its FairRandom, its Dice  *)
(* constructor, determineFirstMove, chooseDice and the first half of       *)
(* playRound are those of app.js line for line (getFairRandom redraws      *)
(* while randomValue >= range, which randomInt never returns); the         *)
(* definitions above model them.  Its Dice.roll, the end of playRound and  *)
(* start differ.                                                           *)

\* Math.floor(Math.random() * this.sides.length)
randomFace(sides) == 0..(Len(sides) - 1)

\* top level of part_000: new DiceGame(argv) and start() up to the first question
Single_Main ==
  /\ pc = "boot"
  /\ LET built == [j \in 1..Len(args) |-> builtDice[args[j]]]
     IN IF Len(args) < 3
        THEN Fail(ArgsError) /\ UNCHANGED <<key, value, hmac>>
        ELSE IF \E j \in 1..Len(args) : built[j].thrown
        THEN Fail(DiceError) /\ UNCHANGED <<key, value, hmac>>
        ELSE /\ diceOptions' = [j \in 1..Len(args) |-> [sides |-> built[j].sides]]
             /\ rl' = "open"
             /\ UNCHANGED scores
             /\ determineFirstMove_call(<<Line("Starting Non-Transitive Dice Game...")>>)
  /\ UNCHANGED <<script, args, awaited, rounds, i, firstPlayer, userDice, computerDice,
                 userGuess, choice, userNumber, finalIndex, userRoll,
                 computerRoll, probe>>

\* playRound of part_000 resumed with the answer to its question
Single_playRound_answer(s) ==
  /\ pc = "askNumber"
  /\ LET n == parsedInput[s]
     IN /\ userNumber' = n
        /\ IF isNaN(n) \/ JsLT(n, JsInt(0)) \/ JsGT(n, JsInt(5))
           THEN /\ PromptsAsked(console) < MaxPrompts
                /\ console' = console \o <<Answer, Question("number")>>
                /\ UNCHANGED <<pc, awaited, userRoll, computerRoll>>
           ELSE \E a \in randomFace(diceOptions[userDice].sides),
                   b \in randomFace(diceOptions[computerDice].sides) :
                  LET ur == diceOptions[userDice].sides[a + 1]
                      cr == diceOptions[computerDice].sides[b + 1]
                  IN /\ userRoll' = ur
                     /\ computerRoll' = cr
                     /\ console' = console \o
                          <<Answer, RevealLine(value, key),
                            ResultLine(n.v, value, combination(n.v, value, 6)),
                            ThrowLine(ur, cr),
                            IF JsGT(ur, cr) THEN Line("You win!")
                            ELSE IF JsLT(ur, cr) THEN Line("I win!")
                            ELSE Line("It's a tie!")>>
                     /\ awaited' = <<Undefined>>
                     /\ pc' = "retRound"
  /\ UNCHANGED <<script, args, diceOptions, scores, rl, rounds, i, firstPlayer,
                 userDice, computerDice, key, value, hmac, userGuess, choice,
                 finalIndex, probe>>

\* start resumed after playRound: the interface is closed
Single_afterRound ==
  /\ pc = "retRound"
  /\ awaited' = NoValue
  /\ firstPlayer' = "none" /\ userDice' = 0 /\ computerDice' = 0
  /\ key' = Unset /\ value' = Unset /\ hmac' = NoHmac
  /\ userNumber' = Undefined
  /\ userRoll' = Undefined /\ computerRoll' = Undefined
  /\ rl' = "closed"
  /\ pc' = "closed"
  /\ UNCHANGED <<script, args, diceOptions, scores, console, rounds, i, userGuess,
                 choice, finalIndex, probe>>

NextSingle ==
  \/ Single_Main
  \/ \E s \in InputPool : determineFirstMove_answer(s)
  \/ playGame_afterFirstMove
  \/ \E s \in InputPool : chooseDice_answer(s)
  \/ playGame_afterChooseDice
  \/ \E s \in InputPool : Single_playRound_answer(s)
  \/ Single_afterRound

InitSingle == script = "part_000" /\ \E argv \in CommandLines : Started(argv)

SpecSingle == InitSingle /\ [][NextSingle]_vars

----------------------------------------------------------------------------
(* Either program, run to its end.  Node runs a resumed continuation to its *)
(* next await, and the input provider answers every question; re-prompts   *)
(* are bounded by MaxPrompts, so weak fairness of the steps is the         *)
(* assumption that every prompt eventually gets a valid answer.            *)

InitBoth == Init \/ InitSingle

NextBoth ==
  \/ script = "app.js" /\ Next
  \/ script = "part_000" /\ NextSingle

SpecBoth == InitBoth /\ [][NextBoth]_vars

FairSpecBoth == SpecBoth /\ WF_vars(NextBoth)

----------------------------------------------------------------------------
(* Dice.roll of app.js called directly, on any integer index *)

Indexes == (-MaxIndex)..MaxIndex

InitRoll == script = "app.js" /\ \E arg \in ArgPool : Started(<<arg>>)

\* new Dice(sides).roll(index) for the one configuration given
roll_call(index) ==
  /\ pc = "boot"
  /\ ~Dice(ParseSides(args[1])).thrown
  /\ probe' = <<Dice(ParseSides(args[1])).sides, index,
                roll(Dice(ParseSides(args[1])).sides, index)>>
  /\ UNCHANGED <<pc, script, args, diceOptions, scores, rl, console, awaited, rounds,
                 i, firstPlayer, userDice, computerDice, key, value, hmac,
                 userGuess, choice, userNumber, finalIndex, userRoll,
                 computerRoll>>

NextRoll == \E index \in Indexes : roll_call(index)

SpecRoll == InitRoll /\ [][NextRoll]_vars

----------------------------------------------------------------------------
(* The combination of the two contributions computed directly, for both
   ranges and all contributions in range *)

Ranges == {2, 6}

InitCombine == script = "app.js" /\ Started(<<DieD, DieA, DieD>>)

\* the combinations of c and w with v, of c with w, of v with c, and the
\* first mover for the guess c
combination_call(range, c, v, w) ==
  /\ pc = "boot"
  /\ probe' = <<range, c, v, w, combination(c, v, range), combination(c, w, range),
                combination(w, v, range), combination(v, c, range),
                firstMove(JsInt(c), v)>>
  /\ UNCHANGED <<pc, script, args, diceOptions, scores, rl, console, awaited, rounds,
                 i, firstPlayer, userDice, computerDice, key, value, hmac,
                 userGuess, choice, userNumber, finalIndex, userRoll,
                 computerRoll>>

NextCombine ==
  \E range \in Ranges : \E c, v, w \in randomInt(range) : combination_call(range, c, v, w)

SpecCombine == InitCombine /\ [][NextCombine]_vars

----------------------------------------------------------------------------
(* Properties *)

\* positions of the lines of a kind on the transcript
At(kind) == { j \in 1..Len(console) : console[j][1] = kind }

\* "exactly 6 entries, all integers >= 1"
SixPositiveIntegers(sides) ==
  /\ Len(sides) = 6
  /\ \A j \in 1..Len(sides) : sides[j].t = "int" /\ sides[j].v >= 1

Face(d, index) == diceOptions[d].sides[index + 1]

\* C1: in both exchanges the HMAC is on the transcript before the question
\* for the contribution is asked, the value and key are printed only after
\* an answer was read, and the result follows the reveal: commit, question,
\* answer, reveal, resolve in that order.
C1_CommitBeforeReveal ==
  /\ pc \in {"askGuess", "askNumber"} =>
       /\ console # <<>> /\ console[1] = HmacLine(hmac)
       /\ At("reveal") = {}
       /\ console[Len(console)][1] = "question"
  /\ \A r \in At("reveal") :
       /\ console[1][1] = "hmac"
       /\ \E q \in At("question"), a \in At("answer") : 1 < q /\ q < a /\ a < r
       /\ \A h \in At("hmac") : h < r
  /\ \A x \in At("result") \cup At("throw") : \E r \in At("reveal") : r < x
  /\ pc \in {"retFirstMove", "retRound"} => At("reveal") # {}
  /\ pc = "retRound" => At("result") # {} /\ At("throw") # {}

C1_Witness ==
  /\ pc = "retRound"
  /\ Cardinality(At("question")) = 2
  /\ At("reveal") # {}

\* C2: the key and value printed at the reveal give, under generateHMAC,
\* exactly the HMAC that was printed at the start of the same exchange.
C2_RevealMatchesCommitment ==
  \A r \in At("reveal") :
    /\ console[1][1] = "hmac"
    /\ generateHMAC(console[r][3], console[r][2]) = console[1][2]

C2_Witness ==
  /\ pc = "retRound"
  /\ \E r \in At("reveal") : console[r][2] = 4 /\ console[r][3] = 2
  /\ userNumber = JsInt(5)

\* C3: a resolved dice round of app.js has value and contribution in 0..5,
\* finalIndex = (contribution + value) mod 6 in 0..5, and both throws are
\* the faces of the two dice at that index.
C3_CombinedIndex ==
  pc = "retRound" =>
    /\ value \in 0..5
    /\ userNumber.t = "int" /\ userNumber.v \in 0..5
    /\ finalIndex = (userNumber.v + value) % 6
    /\ finalIndex \in 0..5
    /\ userRoll = Face(userDice, finalIndex)
    /\ computerRoll = Face(computerDice, finalIndex)

C3_Witness ==
  /\ pc = "retRound"
  /\ value = 3 /\ userNumber = JsInt(2) /\ finalIndex = 5
  /\ diceOptions[userDice].sides = [j \in 1..6 |-> JsInt(j)]
  /\ userRoll = JsInt(6)

\* C4: in the single-round program both throws are the faces of the chosen
\* dice at the index (contribution + value) mod 6.
C4_SingleThrowsAtCombinedIndex ==
  pc = "retRound" =>
    /\ userRoll = Face(userDice, (userNumber.v + value) % 6)
    /\ computerRoll = Face(computerDice, (userNumber.v + value) % 6)

\* C5: the step that resolves a dice round adds one point to the side with
\* the strictly greater face and leaves the other score alone; equal faces
\* change no score.
C5_RoundScoring ==
  [][ (pc = "askNumber" /\ pc' = "retRound") =>
        /\ userRoll'.v > computerRoll'.v =>
             /\ scores'.user = scores.user + 1
             /\ scores'.computer = scores.computer
        /\ userRoll'.v < computerRoll'.v =>
             /\ scores'.computer = scores.computer + 1
             /\ scores'.user = scores.user
        /\ userRoll'.v = computerRoll'.v => scores' = scores ]_vars

C5_Witness ==
  /\ pc = "retRound"
  /\ userRoll.v < computerRoll.v
  /\ scores = [user |-> 1, computer |-> 1]

\* C6: an exchange is resolved only with a contribution that is an integer
\* in [0, R): R = 2 for the first-move guess, R = 6 for a dice round.
C6_ContributionInRange ==
  /\ pc = "retFirstMove" => userGuess.t = "int" /\ userGuess.v \in 0..1
  /\ pc = "retRound" => userNumber.t = "int" /\ userNumber.v \in 0..5

\* C7: new Dice(sides) succeeds exactly when sides has 6 entries that are
\* all integers >= 1; when the constructor throws for an argument, no Dice
\* object is kept.
C7_DiceConstruction ==
  /\ \A j \in 1..Len(args) :
       LET sides == ParseSides(args[j])
       IN /\ Dice(sides).thrown <=> ~SixPositiveIntegers(sides)
          /\ ~Dice(sides).thrown => Dice(sides).sides = sides
  /\ pc # "boot" /\ Len(args) >= 3 =>
       IF \A j \in 1..Len(args) : SixPositiveIntegers(ParseSides(args[j]))
       THEN /\ pc # "error"
            /\ diceOptions = [j \in 1..Len(args) |-> [sides |-> ParseSides(args[j])]]
       ELSE /\ pc = "error"
            /\ console = << <<"error", DiceError>> >>
            /\ diceOptions = <<>>

C7_Witness ==
  /\ pc = "error"
  /\ Len(args) = 3
  /\ SixPositiveIntegers(ParseSides(args[1]))
  /\ SixPositiveIntegers(ParseSides(args[2]))
  /\ Len(ParseSides(args[3])) = 6
  /\ ParseSides(args[3])[6] = JsFrac(1)

\* C8: with fewer than 3 configurations, or one that is not 6 positive
\* integers, the program ends in the error state: no key, value or HMAC is
\* generated, nothing is asked, no score exists.
C8_BadConfigurationStopsStartup ==
  (\/ Len(args) < 3
   \/ \E j \in 1..Len(args) : ~SixPositiveIntegers(ParseSides(args[j]))) =>
    /\ pc \in {"boot", "error"}
    /\ key = Unset /\ value = Unset /\ hmac = NoHmac
    /\ At("hmac") = {} /\ At("question") = {} /\ At("answer") = {}
    /\ scores = NoScores
    /\ diceOptions = <<>>
    /\ rl = "none"

C8_Witness ==
  /\ pc = "error"
  /\ Len(args) = 3
  /\ args[3] = <<"1", ",", "2", ",", "3">>
  /\ SixPositiveIntegers(ParseSides(args[1]))
  /\ SixPositiveIntegers(ParseSides(args[2]))

\* C9: roll(index) returns one of the six faces for every integer index,
\* and roll(index) = roll(index + 6*k) for every integer k.
C9_RollTotalAndPeriodic ==
  probe # <<>> =>
    /\ \E j \in 1..6 : probe[3] = probe[1][j]
    /\ \A k \in (-MaxPeriods)..MaxPeriods : roll(probe[1], probe[2] + 6 * k) = probe[3]

\* C10: at the end of the series the side with the strictly higher score is
\* the one announced.
C10_HigherScoreAnnounced ==
  pc = "closed" =>
    /\ console[Len(console) - 1] = <<"final", scores.user, scores.computer>>
    /\ scores.computer > scores.user =>
         console[Len(console)] = Line("I win the game!")
    /\ scores.user > scores.computer =>
         console[Len(console)] = Line("Congratulations, you win!")

C10_Witness ==
  /\ pc = "closed"
  /\ i = 2
  /\ scores = [user |-> 0, computer |-> 1]
  /\ console[Len(console)] = Line("I win the game!")

\* C11 as claimed: with equal final scores (a series of zero rounds
\* included) the user is the side announced as winner.
C11_TieAnnouncesUser ==
  pc = "closed" /\ scores.user = scores.computer =>
    console[Len(console)] = Line("Congratulations, you win!")

\* C11 as amended: with equal final scores (a series of zero rounds
\* included) the computer is the side announced as winner.
C11_TieAnnouncesComputer ==
  pc = "closed" /\ scores.user = scores.computer =>
    /\ console[Len(console) - 1] = <<"final", scores.user, scores.computer>>
    /\ console[Len(console)] = Line("I win the game!")

C11_Witness ==
  /\ pc = "closed"
  /\ i = 2
  /\ scores = [user |-> 1, computer |-> 1]
  /\ console[Len(console)] = Line("I win the game!")

\* the round count entered: parseInt of the answer when it is a
\* non-negative integer, and no round otherwise
RoundsConfigured == IF rounds.t = "int" /\ rounds.v >= 0 THEN rounds.v ELSE 0

\* C12: every run ends (closed, or the startup error).  app.js closes the
\* interface after exactly the configured number of scoring rounds, having
\* printed the final scores and the winner; part_000 closes it after
\* exactly one scoring round; once closed nothing more happens.
C12_SeriesTerminates ==
  /\ <>(pc \in {"closed", "error"})
  /\ [](pc = "closed" =>
          /\ rl = "closed"
          /\ script = "app.js" =>
               /\ i = RoundsConfigured
               /\ console[Len(console) - 1][1] = "final"
               /\ console[Len(console)] = announce(scores))
  /\ [][ /\ pc = "closed" => pc' = "closed"
         /\ pc' = "retRound" => pc = "askNumber"
         /\ script = "app.js" /\ pc = "retRound" =>
              i' = i + 1 /\ pc' \in {"askGuess", "closed"}
         /\ script = "app.js" /\ i' # i => pc \in {"askRounds", "retRound"}
         /\ script = "part_000" /\ pc = "retRound" => pc' = "closed"
         /\ script = "part_000" /\ pc' = "closed" => pc = "retRound"
         /\ script = "part_000" /\ pc' = "askGuess" => pc = "boot" ]_vars

C12_Witness ==
  /\ script = "app.js"
  /\ pc = "closed"
  /\ rounds = JsInt(2)
  /\ i = 2
  /\ rl = "closed"

\* C13: for the ranges 2 and 6 and contributions in range, the combination
\* (c + v) mod range is in range, takes every value of the range exactly once
\* when c is fixed and v varies and exactly once when v is fixed and c
\* varies, and is the same for (c, v) and (v, c); in the exchange of range 2
\* the user moves first exactly when the combination is 0.
C13_CombinationBijective ==
  probe # <<>> =>
    LET range == probe[1]
        c == probe[2]
        v == probe[3]
        w == probe[4]
    IN /\ probe[5] = (c + v) % range
       /\ probe[5] \in randomInt(range)
       /\ v # w => probe[5] # probe[6]
       /\ c # w => probe[5] # probe[7]
       /\ \A r \in randomInt(range) :
            /\ Cardinality({x \in randomInt(range) : combination(c, x, range) = r}) = 1
            /\ Cardinality({x \in randomInt(range) : combination(x, v, range) = r}) = 1
       /\ probe[5] = probe[8]
       /\ range = 2 => (probe[9] = "user" <=> probe[5] = 0)

C13_Witness ==
  /\ probe # <<>>
  /\ probe[1] = 6 /\ probe[2] = 5 /\ probe[3] = 4 /\ probe[4] = 2
  /\ probe[5] = 3 /\ probe[6] = 1 /\ probe[7] = 0 /\ probe[8] = 3

\* C14: in every round of app.js the die of the user and the die of the
\* computer are both dice of the configured list (at least 3 dice), at
\* different positions of it, also when dice of the list have equal faces.
C14_DiceDefinedAndDistinct ==
  pc \in {"askNumber", "retRound"} =>
    /\ Len(diceOptions) >= 3
    /\ userDice \in 1..Len(diceOptions)
    /\ computerDice \in 1..Len(diceOptions)
    /\ userDice # computerDice

C14_Witness ==
  /\ pc = "retRound"
  /\ userDice = 3 /\ computerDice = 1
  /\ diceOptions[3].sides = diceOptions[1].sides

\* the die of the side that chose, and the die of the other side
ChosenDie == IF firstPlayer = "user" THEN userDice ELSE computerDice

OtherDie == IF firstPlayer = "user" THEN computerDice ELSE userDice

\* C18: in both programs the side that does not choose gets the die at
\* position 0, unless the chosen die is at position 0 and then the die at
\* position 1; it never gets a die at position 2 or later (positions of the
\* model are the positions of the code plus one).
C18_OtherSideGetsFirstDifferent ==
  /\ pc \in {"askNumber", "retRound"} =>
       /\ ChosenDie \in 1..Len(diceOptions)
       /\ OtherDie = IF ChosenDie = 1 THEN 2 ELSE 1
  /\ pc \in {"boot", "askRounds", "askGuess", "retFirstMove", "askChoice", "retChoose"} =>
       userDice = 0 /\ computerDice = 0

C18_Witness ==
  /\ script = "part_000"
  /\ pc = "askNumber"
  /\ Len(diceOptions) = 4
  /\ firstPlayer = "computer"
  /\ computerDice = 4 /\ userDice = 1

\* a commitment is on the transcript and the value and key it was computed
\* from are not
CycleOpen ==
  /\ console # <<>>
  /\ console[1][1] = "hmac"
  /\ ~\E r \in At("reveal") :
        console[1] = HmacLine(generateHMAC(console[r][3], console[r][2]))

\* a step that generates and publishes a commitment
CommitStep == pc' \in {"askGuess", "askNumber"} /\ pc' # pc

\* C15: a commitment is generated only when no commitment is open, and it is
\* then the only one open: the dice-round commitment follows the reveal of
\* the first-move exchange of its round, and the first commitment of a later
\* round follows the reveal and the scoring of the round before.
C15_OneOpenCommitment ==
  [][ CommitStep =>
        /\ ~CycleOpen
        /\ CycleOpen'
        /\ At("hmac")' = {1}
        /\ console'[1] = HmacLine(hmac')
        /\ pc' = "askNumber" => pc = "retChoose" /\ At("reveal") # {}
        /\ pc' = "askGuess" => pc \in {"askRounds", "retRound"}
        /\ pc' = "askGuess" /\ i' > 0 =>
              /\ pc = "retRound" /\ At("reveal") # {} /\ At("throw") # {}
              /\ scores' = scores ]_vars

C15_Witness ==
  /\ pc = "askNumber"
  /\ i = 1
  /\ CycleOpen
  /\ scores.user + scores.computer = 1

\* C16 as claimed: the first-move exchange and the die selection take place
\* before the first scoring round only, so never once a round is completed.
C16_SelectionOnlyBeforeRounds ==
  pc \in {"askGuess", "retFirstMove", "askChoice", "retChoose"} => i = 0

\* C16 as amended: every round of app.js starts with one first-move exchange,
\* followed by one die selection, followed by the scoring exchange of that
\* round; the first-move exchange and the die selection are repeated at the
\* start of each later round, and none takes place between the start of a
\* scoring exchange and the end of its round.
C16_SelectionInEveryRound ==
  [][ /\ pc' = "askGuess" =>
           /\ pc \in {"askRounds", "retRound"}
           /\ JsLT(JsInt(i'), rounds')
           /\ console'[Len(console')] = Question("guess")
      /\ pc = "askGuess" => pc' = "retFirstMove" /\ i' = i
      /\ pc = "retFirstMove" =>
           pc' = "askChoice" /\ i' = i /\ firstPlayer' \in {"user", "computer"}
      /\ pc = "askChoice" => pc' \in {"askChoice", "retChoose"} /\ i' = i
      /\ pc = "retChoose" => pc' = "askNumber" /\ i' = i
      /\ pc' = "askNumber" => pc \in {"retChoose", "askNumber"}
      /\ pc = "askNumber" => pc' \in {"askNumber", "retRound"} /\ i' = i
      /\ pc = "retRound" =>
           /\ i' = i + 1
           /\ pc' = IF JsLT(JsInt(i + 1), rounds) THEN "askGuess" ELSE "closed" ]_vars

C16_Witness ==
  /\ pc = "retChoose"
  /\ i = 1
  /\ scores.user + scores.computer = 1
  /\ At("chose") # {}

\* rounds of the series that are scored
RoundsCompleted ==
  IF pc = "retRound" THEN i + 1 ELSE IF i = Unset THEN 0 ELSE i

\* C17: in app.js both scores are 0 when the series starts, never decrease,
\* change only in the scoring step of a round, which adds 1 to one of them
\* or nothing on equal throws, and so their sum is at most the number of
\* rounds completed.
C17_ScoresMonotone ==
  /\ [](pc = "askRounds" => scores = [user |-> 0, computer |-> 0])
  /\ [](pc \notin {"boot", "error"} =>
          /\ scores.user >= 0 /\ scores.computer >= 0
          /\ scores.user + scores.computer <= RoundsCompleted)
  /\ [][ pc \notin {"boot", "error"} =>
           /\ scores'.user >= scores.user
           /\ scores'.computer >= scores.computer
           /\ scores' # scores => pc = "askNumber" /\ pc' = "retRound"
           /\ pc = "askNumber" /\ pc' = "retRound" =>
                scores'.user + scores'.computer
                  = scores.user + scores.computer
                    + (IF userRoll' = computerRoll' THEN 0 ELSE 1) ]_vars

C17_Witness ==
  /\ pc = "retRound"
  /\ i = 1
  /\ scores = [user |-> 1, computer |-> 0]
  /\ userRoll = computerRoll

\* C19: the commitment of an exchange is computed from the key and the
\* value drawn for it alone and is published before the answer is read, and
\* whatever the answer is, the step that reads it leaves the key, the value
\* and the published commitment as they were and prints exactly that value
\* and that key: two runs with the same draws and different answers publish
\* the same commitment and reveal the same value and key.
C19_HouseValueIndependent ==
  [][ /\ CommitStep =>
           /\ key' \in Keys
           /\ value' \in randomInt(IF pc' = "askGuess" THEN 2 ELSE 6)
           /\ hmac' = generateHMAC(key', value')
           /\ console'[1] = HmacLine(hmac')
           /\ At("answer")' = {} /\ At("reveal")' = {}
      /\ pc \in {"askGuess", "askNumber"} =>
           /\ key' = key /\ value' = value /\ hmac' = hmac
           /\ console'[1] = console[1]
           /\ At("hmac")' = {1}
           /\ pc' # pc => At("reveal")' # {}
           /\ \A r \in At("reveal")' : console'[r] = RevealLine(value, key) ]_vars

C19_Witness ==
  /\ pc = "retFirstMove"
  /\ value = 1
  /\ userGuess = JsInt(1)
  /\ \E r \in At("reveal") : console[r] = RevealLine(1, key)
  /\ console[1] = HmacLine(generateHMAC(key, 1))

====
